---------------------------- MODULE Spec2Model ----------------------------
(***************************************************************************)
(* A model of the HMH platform layer (src/private/entry.cpp) and of the    *)
(* game-side sample producer (src/private/game.cpp).                       *)
(*                                                                         *)
(* WinMain is modelled as a sequential process whose position is pc; the   *)
(* DirectSound device is the environment: its play cursor advances on its  *)
(* own (HwAdvance) and its calls (GetCurrentPosition, Lock) may fail.      *)
(* GameOutputSound is not called by WinMain; it is exercised from a second *)
(* initial state (pc = "game") that stands for a platform layer calling    *)
(* the game service.  ResizeDIBSection is called once by WinMain; a third   *)
(* initial state (pc = "fb") stands for a caller that resizes and renders   *)
(* the framebuffer any number of times, as a WM_SIZE handler would.         *)
(* WinMain's first statement, LoadInputLibrary, and its per-frame gamepad   *)
(* poll touch only the two XInput function pointers, which nothing else     *)
(* reads; they run from a fourth initial state (pc = "input").              *)
(*                                                                         *)
(* Scaling.  DWORD/uint32_t arithmetic is modulo 2^32 in the source and    *)
(* modulo 2^WordBits here; the ring buffer holds 44100 sample frames in    *)
(* the source and SamplesPerSecond here.  The scaled sizes keep the one    *)
(* arithmetic fact the source's sizes have: the word modulus is not a      *)
(* multiple of the buffer size (2^32 mod 176400 # 0, 2^5 mod 12 # 0).      *)
(***************************************************************************)
EXTENDS Integers, Sequences, FiniteSets, TLC

\* ------------------------------------------------------------ sizes
\* Width of DWORD / uint32_t (32 in the source).
WordBits == 5
Word == 2 ^ WordBits
\* Sample frames per second = sample frames in the ring buffer (44100 in the source).
SamplesPerSecond == 3
\* sizeof(int16_t): one channel's sample, the unit the device's cursors move by.
BytesPerChannel == 2
\* int BytesPerSample = sizeof(int16_t) * 2
BytesPerSample == BytesPerChannel * 2
\* 44100 * BytesPerSample
BufferSizeBytes == SamplesPerSecond * BytesPerSample
\* Distance from the device's play cursor to its write cursor, in bytes.
WriteLead == 4
\* ResizeDIBSection(&backBuffer, 800, 600)
InitWidth == 800
InitHeight == 600
\* int bpp{4}
Bpp == 4
\* Largest latencySampleCount the original statement of C1 is tried with.
MaxLatencySampleCount == 1
\* Largest sampleCount handed to GameOutputSound, and the cap on its phase counter.
MaxSampleCount == 3
MaxPhaseSteps == 40
\* Largest width and height handed to ResizeDIBSection by the resize harness.
MaxDim == 2
\* int SquareWavePeriod = 44100 / Hz, in sample frames (172 in the source).  Like the
\* source's, twice its half does not divide the word modulus.
SquareWavePeriod == 6
\* ... ? 16000 : -16000
HighSample == 16000
LowSample == -16000

Nullptr == <<>>
Ptr(a) == <<a>>

Min(a, b) == IF a < b THEN a ELSE b

VARIABLES
    pc,               \* position of WinMain (or "game" for the game-service harness)
    running,          \* global bool running
    secondaryBuffer,  \* static LPDIRECTSOUNDBUFFER secondaryBuffer: TRUE = non-null
    backBuffer,       \* global OffscreenBuffer backBuffer
    heap,             \* live VirtualAlloc allocations: records [id, size]
    SampleIndex,      \* uint32_t SampleIndex
    PlayCursor, WriteCursor,            \* DWORD PlayCursor, WriteCursor
    BytesToLock, BytesToWrite,          \* DWORD BytesToLock, BytesToWrite
    Region1, Region1Size, Region2, Region2Size,
    hwPlay,           \* the device's play cursor
    hwAdv,            \* bytes the device has played since the last poll
    held,             \* the regions of the lock now held on the device, or NoLock
    nextByte,         \* ring-buffer byte following the last byte written
    siWrapped,        \* SampleIndex has wrapped around the word modulus
    cursorsValid,     \* every play cursor the device reported so far was in range
    frame,            \* what the current loop iteration has done so far
    fbFault,          \* "none", or how RenderGradiant left the pixel allocation
    resizeLog,        \* what the ResizeDIBSection calls so far did to the heap
    XInputGetState,   \* Input::XInputGetState, a function pointer
    XInputSetState,   \* Input::XInputSetState, a function pointer
    pollLog,          \* what the last gamepad poll called through: "none" before any
    tSine,            \* GameOutputSound's static float tSine, as a count of increments
    lastCall          \* the last GameOutputSound call: count asked, phase before, samples out

vars == <<pc, running, secondaryBuffer, backBuffer, heap, SampleIndex,
          PlayCursor, WriteCursor, BytesToLock, BytesToWrite,
          Region1, Region1Size, Region2, Region2Size,
          hwPlay, hwAdv, held, nextByte, siWrapped, cursorsValid, frame, fbFault,
          resizeLog, XInputGetState, XInputSetState, pollLog, tSine, lastCall>>

audioLocals == <<PlayCursor, WriteCursor, BytesToLock, BytesToWrite,
                 Region1, Region1Size, Region2, Region2Size>>
gameVars == <<tSine, lastCall>>
inputVars == <<XInputGetState, XInputSetState, pollLog>>
fbVars == <<backBuffer, heap, fbFault, resizeLog>>
hwVars == <<hwPlay, hwAdv>>

NoLock == [r1 |-> Nullptr, r1size |-> 0, r2 |-> Nullptr, r2size |-> 0, on |-> FALSE]
NoReq == [off |-> 0, count |-> 0, made |-> FALSE]

FrameStart(si) ==
    [siStart |-> si, query |-> "none", lockReq |-> NoReq, lockRes |-> "none",
     samples |-> 0, unlocks |-> 0, unlockOk |-> TRUE, draws |-> {},
     out1 |-> <<>>, out2 |-> <<>>]

NoResize == [made |-> FALSE, freed |-> FALSE, badFree |-> FALSE, liveAtAlloc |-> 0]

NoCall == [count |-> 0, before |-> 0, out |-> 0, made |-> FALSE,
           carried |-> 0, samples |-> <<>>]

\* Input::XInputGetStateStub and Input::XInputSetStateStub, as function addresses.
XInputGetStateStub == Ptr(<<"Input", "XInputGetStateStub">>)
XInputSetStateStub == Ptr(<<"Input", "XInputSetStateStub">>)

\* ------------------------------------------------------------ initial state
\* Globals are zero-initialised; OffscreenBuffer's member initialisers give bpp 4, pitch 0.
Init ==
    /\ pc \in {"start", "game", "fb", "input"}
    /\ running = TRUE
    /\ secondaryBuffer = FALSE
    /\ backBuffer = [data |-> Nullptr, width |-> 0, height |-> 0, pitch |-> 0]
    /\ heap = {}
    /\ SampleIndex = 0
    /\ PlayCursor = 0 /\ WriteCursor = 0
    /\ BytesToLock = 0 /\ BytesToWrite = 0
    /\ Region1 = Nullptr /\ Region1Size = 0
    /\ Region2 = Nullptr /\ Region2Size = 0
    /\ hwPlay = 0
    /\ hwAdv = 0
    /\ held = NoLock
    /\ nextByte = 0
    /\ siWrapped = FALSE
    /\ cursorsValid = TRUE
    /\ frame = FrameStart(0)
    /\ fbFault = "none"
    /\ resizeLog = NoResize
    /\ XInputGetState = XInputGetStateStub
    /\ XInputSetState = XInputSetStateStub
    /\ pollLog = "none"
    /\ tSine = 0
    /\ lastCall = NoCall

\* ------------------------------------------------------------ framebuffer
\* VirtualAlloc(nullptr, size, ...): a fresh allocation, or null when memory is
\* exhausted (ok = FALSE) or the size is zero.
VirtualAlloc(h, size, ok) ==
    IF ok /\ size > 0 THEN Ptr(Cardinality(h) + 1) ELSE Nullptr

AllocSize(h, p) ==
    IF \E a \in h : Ptr(a.id) = p
    THEN (CHOOSE a \in h : Ptr(a.id) = p).size
    ELSE 0

\* The heap after ResizeDIBSection's VirtualFree of the old data (if any) and its
\* VirtualAlloc of size bytes returning mem.
HeapAfterResize(h, buffer, size, mem) ==
    LET freed == IF buffer.data # Nullptr
                 THEN {a \in h : Ptr(a.id) # buffer.data}
                 ELSE h
    IN  IF mem # Nullptr THEN freed \cup {[id |-> mem[1], size |-> size]} ELSE freed

\* p is the address of a live allocation.
Live(h, p) == \E a \in h : Ptr(a.id) = p

\* if (buffer->data) VirtualFree(buffer->data, 0, MEM_RELEASE): the heap it leaves.
HeapAfterFree(h, buffer) ==
    IF buffer.data # Nullptr THEN {a \in h : Ptr(a.id) # buffer.data} ELSE h

\* What one ResizeDIBSection call does to the heap: whether it released an allocation,
\* whether it (or an earlier call) passed VirtualFree an address that was not live, and
\* how many allocations were live when it called VirtualAlloc.
ResizeLog(h, buffer, log) ==
    [made |-> TRUE,
     freed |-> buffer.data # Nullptr,
     badFree |-> log.badFree \/ (buffer.data # Nullptr /\ ~Live(h, buffer.data)),
     liveAtAlloc |-> Cardinality(HeapAfterFree(h, buffer))]

\* Mutant: when VirtualAlloc fails the old (released) pointer is left in data.
ResizeDIBSection_KeepsStaleData(buffer, width, height, mem) ==
    IF mem = Nullptr
    THEN [data |-> buffer.data, width |-> width, height |-> height, pitch |-> buffer.pitch]
    ELSE [data |-> mem, width |-> width, height |-> height, pitch |-> width * Bpp]

\* internal void ResizeDIBSection(OffscreenBuffer* buffer, int width, int height):
\* the buffer it leaves, mem being what VirtualAlloc returned.
ResizeDIBSection(buffer, width, height, mem) ==
    IF mem = Nullptr
    THEN \* early return: pitch keeps its old value
         [data |-> Nullptr, width |-> width, height |-> height, pitch |-> buffer.pitch]
    ELSE [data |-> mem, width |-> width, height |-> height, pitch |-> width * Bpp]

\* RenderGradiant writes, for every y < height, the bytes
\* [y * pitch, y * pitch + width * 4) from buffer.data.
RenderWrites(buffer) == buffer.height > 0 /\ buffer.width > 0

RenderGradiant(buffer, h) ==
    IF ~RenderWrites(buffer) THEN "none"
    ELSE IF buffer.data = Nullptr THEN "null"
    ELSE IF (buffer.height - 1) * buffer.pitch + buffer.width * 4
              > AllocSize(h, buffer.data)
         THEN "oob"
    ELSE "none"

\* ------------------------------------------------------------ startup
\* WinMain: ResizeDIBSection(&backBuffer, 800, 600); the window is then created.
InitBackBuffer ==
    /\ pc = "start"
    /\ \E ok \in BOOLEAN :
         LET size == (InitWidth * InitHeight) * Bpp
             mem == VirtualAlloc(heap, size, ok)
         IN  /\ backBuffer' = ResizeDIBSection(backBuffer, InitWidth, InitHeight, mem)
             /\ heap' = HeapAfterResize(heap, backBuffer, size, mem)
    /\ resizeLog' = ResizeLog(heap, backBuffer, resizeLog)
    /\ pc' = "window"
    /\ UNCHANGED <<running, secondaryBuffer, SampleIndex, audioLocals, hwVars, held,
                   nextByte, siWrapped, cursorsValid, frame, fbFault, gameVars, inputVars>>

\* WinMain: RegisterClassA and CreateWindowExA; on failure WinMain returns -1.
CreateWindow ==
    /\ pc = "window"
    /\ \E ok \in BOOLEAN : pc' = IF ok THEN "init_sound" ELSE "exit"
    /\ UNCHANGED <<running, secondaryBuffer, fbVars, SampleIndex, audioLocals, hwVars,
                   held, nextByte, siWrapped, cursorsValid, frame, gameVars, inputVars>>

\* WinMain: InitDSound(hwnd, 44100, 2, 44100*BytesPerSample); its result is ignored.
\* On any failure secondaryBuffer stays null.
InitDSound ==
    /\ pc = "init_sound"
    /\ \E ok \in BOOLEAN : secondaryBuffer' = ok
    /\ pc' = "play"
    /\ UNCHANGED <<running, fbVars, SampleIndex, audioLocals, hwVars, held,
                   nextByte, siWrapped, cursorsValid, frame, gameVars, inputVars>>

\* WinMain: secondaryBuffer->Play(0, 0, DSBPLAY_LOOPING).  Through a null
\* secondaryBuffer the call is undefined: the process faults or goes on.
PlayBuffer ==
    /\ pc = "play"
    /\ \/ pc' = "loop"
       \/ ~secondaryBuffer /\ pc' = "fault"
    /\ frame' = FrameStart(SampleIndex)
    /\ UNCHANGED <<running, secondaryBuffer, fbVars, SampleIndex, audioLocals, hwVars,
                   held, nextByte, siWrapped, cursorsValid, gameVars, inputVars>>

\* ------------------------------------------------------------ the device
\* The device plays on its own: its play cursor moves one 16-bit sample at a time,
\* by less than one buffer length between two polls of the application.
HwAdvance ==
    /\ pc \in {"loop", "pump", "render", "query", "lock", "fill", "unlock", "present"}
    /\ secondaryBuffer
    /\ hwAdv + BytesPerChannel < BufferSizeBytes
    /\ hwPlay' = (hwPlay + BytesPerChannel) % BufferSizeBytes
    /\ hwAdv' = hwAdv + BytesPerChannel
    /\ UNCHANGED <<pc, running, secondaryBuffer, fbVars, SampleIndex, audioLocals,
                   held, nextByte, siWrapped, cursorsValid, frame, gameVars, inputVars>>

\* The device's write cursor: WriteLead bytes ahead of its play cursor.
HwWriteCursor(play) == (play + WriteLead) % BufferSizeBytes

\* Cursor values a failing device may report: outside [0, BufferSizeBytes).
InvalidCursors == {BufferSizeBytes, Word - 1}

\* ------------------------------------------------------------ the message pump
Messages ==
    [message : {"WM_ACTIVATEAPP", "WM_DESTROY", "WM_CLOSE", "WM_SIZE", "WM_PAINT",
                "WM_QUIT", "WM_MOUSEMOVE"},
     key : {"VK_OTHER"}, isDown : {FALSE}]
    \cup
    [message : {"WM_SYSKEYDOWN", "WM_SYSKEYUP", "WM_KEYDOWN", "WM_KEYUP"},
     key : {"VK_ESCAPE", "VK_OTHER"}, isDown : BOOLEAN]

\* Mutant: WM_ACTIVATEAPP resumes a stopped loop.
Wndproc_ActivateResumes(r, m) ==
    CASE m.message \in {"WM_DESTROY", "WM_CLOSE"} -> FALSE
      [] m.message = "WM_ACTIVATEAPP" -> TRUE
      [] m.message \in {"WM_SYSKEYDOWN", "WM_SYSKEYUP", "WM_KEYDOWN", "WM_KEYUP"} ->
            IF m.isDown /\ m.key = "VK_ESCAPE" THEN FALSE ELSE r
      [] OTHER -> r

\* LRESULT CALLBACK Wndproc(...): the value it leaves in running.
Wndproc(r, m) ==
    CASE m.message \in {"WM_DESTROY", "WM_CLOSE"} -> FALSE
      [] m.message \in {"WM_SYSKEYDOWN", "WM_SYSKEYUP", "WM_KEYDOWN", "WM_KEYUP"} ->
            IF m.isDown /\ m.key = "VK_ESCAPE" THEN FALSE ELSE r
      [] OTHER -> r

\* DrawBuffer(hdc, ...): StretchDIBits of buffer.data; who called it is recorded.
DrawBuffer(f, who) == [f EXCEPT !.draws = @ \cup {who}]

\* Mutant: after the cursor query's `continue` the loop condition is not tested.
LoopTest_ContinueSkipsTest ==
    /\ pc = "loop"
    /\ pc' = IF running \/ frame.query = "failed" THEN "pump" ELSE "exit"
    /\ frame' = FrameStart(SampleIndex)
    /\ PlayCursor' = 0 /\ WriteCursor' = 0
    /\ BytesToLock' = 0 /\ BytesToWrite' = 0
    /\ Region1' = Nullptr /\ Region1Size' = 0
    /\ Region2' = Nullptr /\ Region2Size' = 0
    /\ UNCHANGED <<running, secondaryBuffer, fbVars, SampleIndex, hwVars, held,
                   nextByte, siWrapped, cursorsValid, gameVars, inputVars>>

\* while (running)
LoopTest ==
    /\ pc = "loop"
    /\ pc' = IF running THEN "pump" ELSE "exit"
    /\ frame' = FrameStart(SampleIndex)
    /\ PlayCursor' = 0 /\ WriteCursor' = 0
    /\ BytesToLock' = 0 /\ BytesToWrite' = 0
    /\ Region1' = Nullptr /\ Region1Size' = 0
    /\ Region2' = Nullptr /\ Region2Size' = 0
    /\ UNCHANGED <<running, secondaryBuffer, fbVars, SampleIndex, hwVars, held,
                   nextByte, siWrapped, cursorsValid, gameVars, inputVars>>

\* while (PeekMessageA(...)) { TranslateMessage; DispatchMessageA; WM_QUIT test }
DispatchMessage ==
    /\ pc = "pump"
    /\ \E m \in Messages :
         /\ running' = IF m.message = "WM_QUIT" THEN FALSE ELSE Wndproc(running, m)
         /\ frame' = IF m.message = "WM_PAINT" THEN DrawBuffer(frame, "paint") ELSE frame
    /\ UNCHANGED <<pc, secondaryBuffer, fbVars, SampleIndex, audioLocals, hwVars, held,
                   nextByte, siWrapped, cursorsValid, gameVars, inputVars>>

\* PeekMessageA returns FALSE; the gamepad poll changes only xOffset and yOffset.
PumpDone ==
    /\ pc = "pump"
    /\ pc' = "render"
    /\ UNCHANGED <<running, secondaryBuffer, fbVars, SampleIndex, audioLocals, hwVars,
                   held, nextByte, siWrapped, cursorsValid, frame, gameVars, inputVars>>

\* RenderGradiant(backBuffer, xOffset, yOffset).  A write through a null or too
\* small allocation is undefined: the process faults or goes on.
Render ==
    /\ pc = "render"
    /\ LET r == RenderGradiant(backBuffer, heap)
       IN  /\ fbFault' = IF r = "none" THEN fbFault ELSE r
           /\ \/ pc' = "query"
              \/ r # "none" /\ pc' = "fault"
    /\ UNCHANGED <<running, secondaryBuffer, backBuffer, heap, resizeLog, SampleIndex,
                   audioLocals, hwVars, held, nextByte, siWrapped, cursorsValid, frame,
                   gameVars, inputVars>>

\* ------------------------------------------------------------ the audio fill
\* DWORD BytesToLock = SampleIndex * BytesPerSample % (44100 * BytesPerSample):
\* the product is taken in the word, then reduced by the buffer size.
ByteOffsetToLock(si) == ((si * BytesPerSample) % Word) % BufferSizeBytes

\* Mutant: the wrapping branch forgets to add the play cursor.
ByteCountToWrite_NoWrapTail(lock, play) ==
    IF lock > play
    THEN (BufferSizeBytes - lock) % Word
    ELSE (play - lock) % Word

\* Mutant: equality is taken for the wrapping case (>= for >).
ByteCountToWrite_EqualWraps(lock, play) ==
    IF lock >= play
    THEN ((BufferSizeBytes - lock) + play) % Word
    ELSE (play - lock) % Word

\* if (BytesToLock > PlayCursor) BytesToWrite = (buffer - BytesToLock) + PlayCursor;
\* else BytesToWrite = PlayCursor - BytesToLock;
ByteCountToWrite(lock, play) ==
    IF lock > play
    THEN ((BufferSizeBytes - lock) + play) % Word
    ELSE (play - lock) % Word

\* IDirectSoundBuffer::Lock(offset, bytes, ...): the two regions of a granted lock,
\* the second one at the start of the buffer when the range wraps.
LockRegions(off, count) ==
    LET s1 == Min(count, BufferSizeBytes - off)
    IN  [r1 |-> Ptr(off), r1size |-> s1,
         r2 |-> IF count - s1 > 0 THEN Ptr(0) ELSE Nullptr, r2size |-> count - s1,
         on |-> TRUE]

\* The device grants a lock only for a range inside the buffer, and may deny any.
LockGrantable(off, count) == off < BufferSizeBytes /\ count <= BufferSizeBytes

\* Mutant: a region's byte count is rounded up to whole sample frames.
RegionSampleCount_RoundsUp(size) == (size + BytesPerSample - 1) \div BytesPerSample

\* DWORD Region1SampleCount = Region1Size / BytesPerSample
RegionSampleCount(size) == size \div BytesPerSample

\* Sample frames the second loop writes: if (Region2 && Region2Size > 0)
Region2SampleCount(r2, size) ==
    IF r2 # Nullptr /\ size > 0 THEN RegionSampleCount(size) ELSE 0

\* Mutant: a failed cursor query ends the loop (break for continue).
QueryCursor_FailureBreaks ==
    /\ pc = "query"
    /\ \/ /\ ~secondaryBuffer
          /\ pc' = "present"
          /\ UNCHANGED <<PlayCursor, WriteCursor, hwAdv, frame, cursorsValid>>
       \/ /\ secondaryBuffer
          /\ hwAdv' = 0
          /\ \/ /\ pc' = "exit"
                /\ frame' = [frame EXCEPT !.query = "failed"]
                /\ UNCHANGED <<PlayCursor, WriteCursor, cursorsValid>>
             \/ /\ pc' = "lock"
                /\ PlayCursor' = hwPlay
                /\ WriteCursor' = HwWriteCursor(hwPlay)
                /\ frame' = [frame EXCEPT !.query = "valid"]
                /\ UNCHANGED cursorsValid
             \/ /\ pc' = "lock"
                /\ PlayCursor' \in InvalidCursors
                /\ WriteCursor' = PlayCursor'
                /\ frame' = [frame EXCEPT !.query = "invalid"]
                /\ cursorsValid' = FALSE
    /\ UNCHANGED <<running, secondaryBuffer, fbVars, SampleIndex, BytesToLock,
                   BytesToWrite, Region1, Region1Size, Region2, Region2Size, hwPlay,
                   held, nextByte, siWrapped, gameVars, inputVars>>

\* if (secondaryBuffer) { hr = GetCurrentPosition(&PlayCursor, &WriteCursor);
\*                        if (FAILED(hr)) continue; }
QueryCursor ==
    /\ pc = "query"
    /\ \/ /\ ~secondaryBuffer
          /\ pc' = "present"
          /\ UNCHANGED <<PlayCursor, WriteCursor, hwAdv, frame, cursorsValid>>
       \/ /\ secondaryBuffer
          /\ hwAdv' = 0
          /\ \/ /\ pc' = "loop"
                /\ frame' = [frame EXCEPT !.query = "failed"]
                /\ UNCHANGED <<PlayCursor, WriteCursor, cursorsValid>>
             \/ /\ pc' = "lock"
                /\ PlayCursor' = hwPlay
                /\ WriteCursor' = HwWriteCursor(hwPlay)
                /\ frame' = [frame EXCEPT !.query = "valid"]
                /\ UNCHANGED cursorsValid
             \/ /\ pc' = "lock"
                /\ PlayCursor' \in InvalidCursors
                /\ WriteCursor' = PlayCursor'
                /\ frame' = [frame EXCEPT !.query = "invalid"]
                /\ cursorsValid' = FALSE
    /\ UNCHANGED <<running, secondaryBuffer, fbVars, SampleIndex, BytesToLock,
                   BytesToWrite, Region1, Region1Size, Region2, Region2Size, hwPlay,
                   held, nextByte, siWrapped, gameVars, inputVars>>

\* Mutant: the computation already advances SampleIndex by the frames it asks for.
LockBuffer_AdvancesIndex ==
    /\ pc = "lock"
    /\ LET off == ByteOffsetToLock(SampleIndex)
           count == ByteCountToWrite(off, PlayCursor)
           got == LockRegions(off, count)
       IN  /\ BytesToLock' = off
           /\ BytesToWrite' = count
           /\ SampleIndex' = (SampleIndex + count \div BytesPerSample) % Word
           /\ \/ /\ LockGrantable(off, count)
                 /\ Region1' = got.r1 /\ Region1Size' = got.r1size
                 /\ Region2' = got.r2 /\ Region2Size' = got.r2size
                 /\ held' = got
                 /\ frame' = [frame EXCEPT
                                !.lockReq = [off |-> off, count |-> count, made |-> TRUE],
                                !.lockRes = "ok"]
                 /\ pc' = "fill"
              \/ /\ UNCHANGED <<Region1, Region1Size, Region2, Region2Size, held>>
                 /\ frame' = [frame EXCEPT
                                !.lockReq = [off |-> off, count |-> count, made |-> TRUE],
                                !.lockRes = "denied"]
                 /\ pc' = "present"
    /\ UNCHANGED <<running, secondaryBuffer, fbVars, PlayCursor, WriteCursor,
                   hwVars, nextByte, siWrapped, cursorsValid, gameVars, inputVars>>

\* The lock-region computation and hr = secondaryBuffer->Lock(BytesToLock, BytesToWrite,
\* &Region1, &Region1Size, &Region2, &Region2Size, 0)
LockBuffer ==
    /\ pc = "lock"
    /\ LET off == ByteOffsetToLock(SampleIndex)
           count == ByteCountToWrite(off, PlayCursor)
           got == LockRegions(off, count)
       IN  /\ BytesToLock' = off
           /\ BytesToWrite' = count
           /\ \/ /\ LockGrantable(off, count)
                 /\ Region1' = got.r1 /\ Region1Size' = got.r1size
                 /\ Region2' = got.r2 /\ Region2Size' = got.r2size
                 /\ held' = got
                 /\ frame' = [frame EXCEPT
                                !.lockReq = [off |-> off, count |-> count, made |-> TRUE],
                                !.lockRes = "ok"]
                 /\ pc' = "fill"
              \/ /\ UNCHANGED <<Region1, Region1Size, Region2, Region2Size, held>>
                 /\ frame' = [frame EXCEPT
                                !.lockReq = [off |-> off, count |-> count, made |-> TRUE],
                                !.lockRes = "denied"]
                 /\ pc' = "present"
    /\ UNCHANGED <<running, secondaryBuffer, fbVars, SampleIndex, PlayCursor, WriteCursor,
                   hwVars, nextByte, siWrapped, cursorsValid, gameVars, inputVars>>

\* int16_t SampleValue = ((SampleIndex / (SquareWavePeriod / 2)) % 2) ? 16000 : -16000
SquareSample(si) ==
    IF (si \div (SquareWavePeriod \div 2)) % 2 # 0 THEN HighSample ELSE LowSample

\* for (DWORD index = 0; index < RegionSampleCount; ++index)
\*     { SampleValue = ...; *pData++ = SampleValue; *pData++ = SampleValue; SampleIndex++; }
\* The stereo frames one loop writes, SampleIndex being si when it starts.
RECURSIVE FillRegion(_, _, _)
FillRegion(si, count, index) ==
    IF index < count
    THEN <<SquareSample(si)>> \o FillRegion((si + 1) % Word, count, index + 1)
    ELSE <<>>

\* Mutant: the second loop starts again from the index the first loop started from.
FillRegions_Region2Restarts ==
    /\ pc = "fill"
    /\ LET n1 == RegionSampleCount(Region1Size)
           n2 == Region2SampleCount(Region2, Region2Size)
       IN  /\ SampleIndex' = (SampleIndex + n1 + n2) % Word
           /\ siWrapped' = (siWrapped \/ SampleIndex + n1 + n2 >= Word)
           /\ nextByte' = IF n2 > 0 THEN n2 * BytesPerSample
                          ELSE IF n1 > 0
                               THEN (Region1[1] + n1 * BytesPerSample) % BufferSizeBytes
                               ELSE nextByte
           /\ frame' = [frame EXCEPT !.samples = @ + n1 + n2,
                                     !.out1 = FillRegion(SampleIndex, n1, 0),
                                     !.out2 = FillRegion(SampleIndex, n2, 0)]
    /\ pc' = "unlock"
    /\ UNCHANGED <<running, secondaryBuffer, fbVars, audioLocals, hwVars, held,
                   cursorsValid, gameVars, inputVars>>

\* The two sample loops: each iteration writes one stereo frame and does SampleIndex++.
FillRegions ==
    /\ pc = "fill"
    /\ LET n1 == RegionSampleCount(Region1Size)
           n2 == Region2SampleCount(Region2, Region2Size)
       IN  /\ SampleIndex' = (SampleIndex + n1 + n2) % Word
           /\ siWrapped' = (siWrapped \/ SampleIndex + n1 + n2 >= Word)
           /\ nextByte' = IF n2 > 0 THEN n2 * BytesPerSample
                          ELSE IF n1 > 0
                               THEN (Region1[1] + n1 * BytesPerSample) % BufferSizeBytes
                               ELSE nextByte
           /\ frame' = [frame EXCEPT
                          !.samples = @ + n1 + n2,
                          !.out1 = FillRegion(SampleIndex, n1, 0),
                          !.out2 = FillRegion((SampleIndex + n1) % Word, n2, 0)]
    /\ pc' = "unlock"
    /\ UNCHANGED <<running, secondaryBuffer, fbVars, audioLocals, hwVars, held,
                   cursorsValid, gameVars, inputVars>>

\* Mutant: an empty lock is left without its unlock.
UnlockBuffer_SkipsEmpty ==
    /\ pc = "unlock"
    /\ IF BytesToWrite = 0
       THEN UNCHANGED <<frame, held>>
       ELSE /\ frame' = [frame EXCEPT !.unlocks = @ + 1]
            /\ held' = NoLock
    /\ pc' = "present"
    /\ UNCHANGED <<running, secondaryBuffer, fbVars, SampleIndex, audioLocals, hwVars,
                   nextByte, siWrapped, cursorsValid, gameVars, inputVars>>

\* Mutant: the unlock is put off until after the iteration has presented.
UnlockBuffer_AfterPresent ==
    /\ pc = "unlock"
    /\ pc' = "present"
    /\ UNCHANGED <<running, secondaryBuffer, fbVars, SampleIndex, audioLocals, hwVars,
                   held, nextByte, siWrapped, cursorsValid, frame, gameVars, inputVars>>

\* secondaryBuffer->Unlock(Region1, Region1Size, Region2, Region2Size); GetStatus
UnlockBuffer ==
    /\ pc = "unlock"
    /\ frame' = [frame EXCEPT
                   !.unlocks = @ + 1,
                   !.unlockOk = @ /\ held = [r1 |-> Region1, r1size |-> Region1Size,
                                             r2 |-> Region2, r2size |-> Region2Size,
                                             on |-> TRUE]]
    /\ held' = NoLock
    /\ pc' = "present"
    /\ UNCHANGED <<running, secondaryBuffer, fbVars, SampleIndex, audioLocals, hwVars,
                   nextByte, siWrapped, cursorsValid, gameVars, inputVars>>

\* Mutant: the iteration ends without drawing.
Present_NoDraw ==
    /\ pc = "present"
    /\ pc' = "loop"
    /\ UNCHANGED <<running, secondaryBuffer, fbVars, SampleIndex, audioLocals, hwVars,
                   held, nextByte, siWrapped, cursorsValid, frame, gameVars, inputVars>>

\* HDC hdc = GetDC(hwnd); DrawBuffer(hdc, ..., backBuffer, 0, 0); ReleaseDC
Present ==
    /\ pc = "present"
    /\ frame' = DrawBuffer(frame, "loop")
    /\ pc' = "loop"
    /\ UNCHANGED <<running, secondaryBuffer, fbVars, SampleIndex, audioLocals, hwVars,
                   held, nextByte, siWrapped, cursorsValid, gameVars, inputVars>>

\* ------------------------------------------------------------ the game service
\* for (int i = 0; i < buffer.sampleCount; ++i): the number of iterations.
LoopCount(sampleCount) == IF sampleCount > 0 THEN sampleCount ELSE 0

\* SampleValue = (int16_t)(sinf(tSine) * ToneVolume): the value is kept symbolic, as
\* the sine of the phase reached after t increments of tSine.
SineSample(t) == <<"sinf", t>>

\* The stereo frames one call writes, tSine being t when it starts: frame i is taken
\* at the phase i increments on.
SineSamples(t, count) == [i \in 1 .. count |-> SineSample(t + (i - 1))]

\* void GameOutputSound(SoundOutputBuffer& buffer, int toneHz): every iteration writes
\* one stereo frame and adds one step to the static tSine.
GameOutputSound ==
    /\ pc = "game"
    /\ \E sampleCount \in 0 .. MaxSampleCount :
         /\ tSine + LoopCount(sampleCount) <= MaxPhaseSteps
         /\ tSine' = tSine + LoopCount(sampleCount)
         /\ lastCall' = [count |-> sampleCount, before |-> tSine,
                         out |-> LoopCount(sampleCount), made |-> TRUE,
                         carried |-> tSine,
                         samples |-> SineSamples(tSine, LoopCount(sampleCount))]
    /\ UNCHANGED <<pc, running, secondaryBuffer, fbVars, SampleIndex, audioLocals, hwVars,
                   held, nextByte, siWrapped, cursorsValid, frame, inputVars>>

\* ------------------------------------------------------------ the resize harness
\* A caller's ResizeDIBSection(&backBuffer, width, height), VirtualAlloc succeeding or not.
ResizeCall ==
    /\ pc = "fb"
    /\ \E width \in 0 .. MaxDim, height \in 0 .. MaxDim, ok \in BOOLEAN :
         LET size == (width * height) * Bpp
             mem == VirtualAlloc(heap, size, ok)
         IN  /\ backBuffer' = ResizeDIBSection(backBuffer, width, height, mem)
             /\ heap' = HeapAfterResize(heap, backBuffer, size, mem)
    /\ resizeLog' = ResizeLog(heap, backBuffer, resizeLog)
    /\ UNCHANGED <<pc, running, secondaryBuffer, fbFault, SampleIndex, audioLocals, hwVars,
                   held, nextByte, siWrapped, cursorsValid, frame, gameVars, inputVars>>

\* A caller's RenderGradiant(backBuffer, ...) between two resizes; a write through a null
\* or too small allocation faults or goes on.
RenderCall ==
    /\ pc = "fb"
    /\ LET r == RenderGradiant(backBuffer, heap)
       IN  /\ fbFault' = IF r = "none" THEN fbFault ELSE r
           /\ \/ pc' = "fb"
              \/ r # "none" /\ pc' = "fault"
    /\ UNCHANGED <<running, secondaryBuffer, backBuffer, heap, resizeLog, SampleIndex,
                   audioLocals, hwVars, held, nextByte, siWrapped, cursorsValid, frame,
                   gameVars, inputVars>>

\* ------------------------------------------------------------ the input library
\* LoadLibraryA(name): the module's handle, or null when the library is not installed.
LoadLibraryA(name, installed) == IF installed THEN Ptr(name) ELSE Nullptr

\* GetProcAddress(module, name): the function's address, or null when the module handle
\* is null or the module does not export the name.
GetProcAddress(module, name, exported) ==
    IF module # Nullptr /\ exported THEN Ptr(<<module[1], name>>) ELSE Nullptr

\* Mutant: the lookup's result is stored without the null test.
Resolve_Unchecked(current, proc) == proc

\* if (auto proc = GetProcAddress(...)) { pointer = reinterpret_cast<...>(proc); }:
\* the value the pointer is left with.
Resolve(current, proc) == IF proc # Nullptr THEN proc ELSE current

\* auto LoadInputLibrary() -> bool: xinput1_4.dll, else xinput1_3.dll; each pointer is
\* replaced only by a lookup that succeeded.  It returns true whatever happened, so
\* WinMain goes on.
LoadInputLibrary ==
    /\ pc = "input"
    /\ \E has14 \in BOOLEAN, has13 \in BOOLEAN, expGet \in BOOLEAN, expSet \in BOOLEAN :
         LET first == LoadLibraryA("xinput1_4.dll", has14)
             module == IF first = Nullptr THEN LoadLibraryA("xinput1_3.dll", has13)
                       ELSE first
         IN  /\ XInputGetState' =
                    Resolve(XInputGetState, GetProcAddress(module, "XInputGetState", expGet))
             /\ XInputSetState' =
                    Resolve(XInputSetState, GetProcAddress(module, "XInputSetState", expSet))
    /\ pc' = "poll"
    /\ UNCHANGED <<running, secondaryBuffer, fbVars, SampleIndex, audioLocals, hwVars,
                   held, nextByte, siWrapped, cursorsValid, frame, gameVars, pollLog>>

\* What a call through the function pointer f reaches.
CallThrough(f, stub) ==
    IF f = Nullptr THEN "null" ELSE IF f = stub THEN "stub" ELSE "loaded"

\* for (cIndex < XUSER_MAX_COUNT) if (Input::XInputGetState(cIndex, &state) == ...):
\* a call through a null pointer is undefined: the process faults or goes on.
GamepadPoll ==
    /\ pc = "poll"
    /\ pollLog' = CallThrough(XInputGetState, XInputGetStateStub)
    /\ \/ pc' = "poll"
       \/ XInputGetState = Nullptr /\ pc' = "fault"
    /\ UNCHANGED <<running, secondaryBuffer, fbVars, SampleIndex, audioLocals, hwVars,
                   held, nextByte, siWrapped, cursorsValid, frame, gameVars,
                   XInputGetState, XInputSetState>>

\* ------------------------------------------------------------ specification
Next ==
    \/ InitBackBuffer
    \/ CreateWindow
    \/ InitDSound
    \/ PlayBuffer
    \/ LoopTest
    \/ DispatchMessage
    \/ PumpDone
    \/ Render
    \/ QueryCursor
    \/ LockBuffer
    \/ FillRegions
    \/ UnlockBuffer
    \/ Present
    \/ HwAdvance
    \/ GameOutputSound
    \/ ResizeCall
    \/ RenderCall
    \/ LoadInputLibrary
    \/ GamepadPoll

Spec == Init /\ [][Next]_vars

\* WinMain runs on: whenever one of its statements can execute, one eventually does.
\* PeekMessageA eventually finds the queue empty; the device and the message queue
\* are under no such obligation.
WinMainStep ==
    \/ InitBackBuffer \/ CreateWindow \/ InitDSound \/ PlayBuffer
    \/ LoopTest \/ PumpDone \/ Render
    \/ QueryCursor \/ LockBuffer \/ FillRegions \/ UnlockBuffer \/ Present

FairSpec == Spec /\ WF_vars(WinMainStep)

\* ------------------------------------------------------------ claims
\* The lock region the current iteration asked for.
ReqOff == frame.lockReq.off
ReqCount == frame.lockReq.count
RegionComputed == frame.lockReq.made /\ frame.query = "valid"

C2_OffsetFollowsLastWrite ==
    cursorsValid =>
        /\ ByteOffsetToLock(SampleIndex) = nextByte
        /\ ~siWrapped

\* Bytes of the range now locked, and bytes the device has queued for playback: the
\* byte at its play cursor and those up to its write cursor.
LockedBytes ==
    {(ReqOff + i) % BufferSizeBytes : i \in 0 .. (ReqCount - 1)}
QueuedBytes ==
    {hwPlay} \cup {(hwPlay + i) % BufferSizeBytes : i \in 0 .. (WriteLead - 1)}

\* C3: while a range is locked for writing it holds neither the byte at the device's
\* play cursor nor a byte between the play cursor and the write cursor.
C3_NeverLapsPlayCursor ==
    (held.on /\ cursorsValid) => LockedBytes \cap QueuedBytes = {}

\* C4: a play cursor outside [0, bufferSizeBytes) is rejected: no lock is requested,
\* nothing is written and sampleIndex keeps its value.
C4_InvalidCursorRejected ==
    frame.query = "invalid" =>
        /\ ~frame.lockReq.made
        /\ frame.samples = 0
        /\ SampleIndex = frame.siStart

\* C5: an iteration whose cursor query failed has skipped the audio fill and has
\* drawn the framebuffer by the time it ends.
C5_QueryFailedStillPresents ==
    (frame.query = "failed" /\ pc = "loop") =>
        /\ ~frame.lockReq.made
        /\ frame.samples = 0
        /\ SampleIndex = frame.siStart
        /\ frame.draws # {}

\* C6: an iteration whose lock was denied writes no sample, leaves sampleIndex as it
\* was, issues no unlock and goes on to present the framebuffer.
C6_LockDeniedSkipsFill ==
    frame.lockRes = "denied" =>
        /\ frame.samples = 0
        /\ SampleIndex = frame.siStart
        /\ frame.unlocks = 0
        /\ ~held.on
        /\ \/ pc = "present"
           \/ pc = "loop" /\ "loop" \in frame.draws

C6_Witness ==
    /\ frame.lockRes = "denied"
    /\ pc = "loop"
    /\ "loop" \in frame.draws
    /\ SampleIndex > 0

\* C7: a granted lock is held only while the iteration fills and unlocks; it is
\* released by exactly one unlock carrying the regions the lock returned, before the
\* iteration presents; an unlock is issued only for a granted lock; an empty lock too.
C7_LockUnlockPaired ==
    /\ frame.unlockOk
    /\ frame.unlocks <= 1
    /\ frame.unlocks = 1 => frame.lockRes = "ok"
    /\ held.on => pc \in {"fill", "unlock"} /\ frame.lockRes = "ok" /\ frame.unlocks = 0
    /\ (frame.lockRes = "ok" /\ pc \in {"present", "loop"}) =>
           frame.unlocks = 1 /\ ~held.on

C7_Witness ==
    /\ frame.lockRes = "ok"
    /\ ReqCount = 0
    /\ frame.unlocks = 1
    /\ pc = "loop"

\* C8: when the offset to lock equals the target (the play cursor) the count is 0,
\* no sample is written and sampleIndex keeps its value; and a GameOutputSound call
\* asked for 0 samples writes nothing and leaves its phase where it was.
C8_ZeroRegionIsNoOp ==
    /\ (frame.lockReq.made /\ ReqOff = PlayCursor) =>
           /\ ReqCount = 0
           /\ frame.samples = 0
           /\ SampleIndex = frame.siStart
    /\ (lastCall.made /\ lastCall.count = 0) =>
           /\ lastCall.out = 0
           /\ tSine = lastCall.before

C8_Witness ==
    /\ frame.lockReq.made
    /\ ReqOff = PlayCursor
    /\ ReqOff > 0
    /\ frame.lockRes = "ok"
    /\ pc = "loop"

\* C9: once a resize has left the framebuffer without pixel memory (data = null), no
\* render writes through the null pointer.
C9_EmptyBufferNeverWritten ==
    fbFault # "null"

\* C10: pitch is width * bytesPerPixel, the live allocation is width * height *
\* bytesPerPixel bytes, and no render has written outside a live allocation.
C10_GeometryConsistent ==
    /\ backBuffer.pitch = backBuffer.width * Bpp
    /\ AllocSize(heap, backBuffer.data) = backBuffer.width * backBuffer.height * Bpp
    /\ fbFault = "none"

\* Positions of WinMain inside the frame loop, and after both startup initialisations.
InLoop == pc \in {"loop", "pump", "render", "query", "lock", "fill", "unlock", "present"}

\* C11: when the initial framebuffer allocation or the initial sound-buffer creation
\* has failed, startup ends with an error: WinMain neither calls Play nor enters the
\* frame loop with a null framebuffer or a null secondary buffer.
C11_StartupFailureIsFatal ==
    (pc = "play" \/ InLoop) => (backBuffer.data # Nullptr /\ secondaryBuffer)

\* WinMain has left the frame loop: it returned, or the process faulted.
LoopEnded == pc \in {"exit", "fault"}

\* C12: once running is false the iteration under way runs to its end without being
\* cut off, the next loop test leaves the loop (no later iteration begins, so no
\* later lock/fill cycle), and the loop ends on every path, the one through a failed
\* cursor query included.
C12_StopEndsLoop ==
    /\ [][(~running /\ pc = "loop") => pc' \in {"loop", "exit"}]_vars
    /\ [][(~running /\ InLoop /\ pc # "loop") => pc' # "exit"]_vars
    /\ (~running) ~> LoopEnded

C12_Witness ==
    /\ ~running
    /\ pc = "loop"
    /\ frame.query = "failed"
    /\ SampleIndex > 0

\* The iteration's lock was granted and its two sample loops have run.
Filled == frame.lockRes = "ok" /\ pc \in {"unlock", "present", "loop"}

\* C13: in an iteration whose lock succeeds the stereo frames written number
\* byteCountToWrite / bytesPerSample; each region receives regionSize / bytesPerSample
\* of them and none is written past the end of its region; sampleIndex advances (in
\* its 32-bit word) by the number written.
C13_FramesWrittenMatchRegions ==
    Filled =>
        /\ Region1Size + Region2Size = ReqCount
        /\ Len(frame.out1) = Region1Size \div BytesPerSample
        /\ Len(frame.out2) = Region2Size \div BytesPerSample
        /\ Len(frame.out1) * BytesPerSample <= Region1Size
        /\ Len(frame.out2) * BytesPerSample <= Region2Size
        /\ Len(frame.out1) + Len(frame.out2) = ReqCount \div BytesPerSample
        /\ frame.samples = Len(frame.out1) + Len(frame.out2)
        /\ (SampleIndex - frame.siStart) % Word = frame.samples

C13_Witness ==
    /\ Filled
    /\ pc = "loop"
    /\ Len(frame.out1) > 0
    /\ Len(frame.out2) > 0
    /\ ReqCount % BytesPerSample # 0

\* C14: the frames written to the two regions of a lock are, one after the other, the
\* frames one loop of the joint length writes from the index the iteration started
\* with; sampleIndex changes only in the fill, so the next iteration goes on from where
\* this one stopped; and a GameOutputSound call starts at the phase the previous call
\* left in tSine and writes the frames that follow it.
C14_PhaseContinuity ==
    /\ [](Filled =>
            frame.out1 \o frame.out2
              = FillRegion(frame.siStart, Len(frame.out1) + Len(frame.out2), 0))
    /\ [](SampleIndex = (frame.siStart + frame.samples) % Word)
    /\ [][pc # "fill" => SampleIndex' = SampleIndex]_vars
    /\ [](lastCall.made =>
            /\ lastCall.before = lastCall.carried
            /\ lastCall.samples = SineSamples(lastCall.before, lastCall.out)
            /\ tSine = lastCall.before + lastCall.out)

C14_Witness ==
    /\ Filled
    /\ Len(frame.out1) > 0
    /\ Len(frame.out2) > 0
    /\ frame.out2[1] # frame.out1[1]
    /\ frame.siStart > SamplesPerSecond

\* C15: the lock-region computation yields an offset and a count that are functions of
\* sampleIndex and the play cursor alone (with the fixed buffer size and frame size),
\* and it leaves sampleIndex, the cursors it read and every other variable of the
\* program as they were.
C15_RegionComputationIsPure ==
    [][(pc = "lock" /\ pc' # "lock") =>
          /\ BytesToLock' = ByteOffsetToLock(SampleIndex)
          /\ BytesToWrite' = ByteCountToWrite(BytesToLock', PlayCursor)
          /\ SampleIndex' = SampleIndex
          /\ PlayCursor' = PlayCursor /\ WriteCursor' = WriteCursor
          /\ running' = running /\ secondaryBuffer' = secondaryBuffer
          /\ backBuffer' = backBuffer /\ tSine' = tSine
          /\ nextByte' = nextByte]_vars

C15_Witness ==
    /\ frame.lockReq.made
    /\ frame.lockRes = "denied"
    /\ ReqCount > BytesPerSample
    /\ SampleIndex > SamplesPerSecond
    /\ pc = "present"

\* C16: inside an iteration the steps follow one another in the order query, region
\* computation and lock, fill, unlock, present, none starting before the one before it
\* is over; the framebuffer is never drawn while a region of the sound buffer is locked.
C16_StepsInOrder ==
    /\ [][/\ pc = "query" => pc' \in {"query", "lock", "present", "loop"}
          /\ pc = "lock" => pc' \in {"lock", "fill", "present"}
          /\ pc = "fill" => pc' \in {"fill", "unlock"}
          /\ pc = "unlock" => pc' \in {"unlock", "present"}
          /\ pc = "present" => pc' \in {"present", "loop"}]_vars
    /\ [][frame'.draws # frame.draws => (~held.on /\ ~held'.on)]_vars
    /\ [](frame.lockReq.made => frame.query \in {"valid", "invalid"})
    /\ [](frame.samples > 0 =>
            (frame.lockRes = "ok" /\ pc \in {"unlock", "present", "loop"}))
    /\ [](frame.unlocks > 0 => (frame.lockRes = "ok" /\ pc \in {"present", "loop"}))
    /\ []("loop" \in frame.draws => (pc = "loop" /\ ~held.on))

C16_Witness ==
    /\ pc = "loop"
    /\ "loop" \in frame.draws
    /\ frame.unlocks = 1
    /\ frame.samples > 1

\* The iteration's cursor query failed or gave an out-of-range cursor, or its lock
\* was denied.
AudioFailed == frame.query \in {"failed", "invalid"} \/ frame.lockRes = "denied"

\* C17: a failed cursor query, an out-of-range cursor or a denied lock does not end
\* the frame loop: the iteration stays inside the loop and leaves running as it was,
\* and with running true the loop test begins the next iteration, which comes to its
\* cursor query again (unless a render faults first).
C17_AudioFailureKeepsLooping ==
    /\ [](AudioFailed => pc \in {"lock", "fill", "unlock", "present", "loop"})
    /\ [][AudioFailed => running' = running]_vars
    /\ [][(AudioFailed /\ running /\ pc = "loop") => pc' \in {"loop", "pump"}]_vars
    /\ (AudioFailed /\ running /\ pc = "loop") ~> (pc = "query" \/ pc = "fault")

C17_Witness ==
    /\ pc = "loop"
    /\ running
    /\ frame.query = "invalid"
    /\ frame.lockRes = "denied"
    /\ SampleIndex > 0

\* A state in which the platform code can see that the sound output has failed: the
\* frame loop has been left, or the secondary buffer has been given up.
AudioErrorState == LoopEnded \/ (InLoop /\ ~secondaryBuffer)

\* C18: when the cursor query fails in every iteration, again and again, the program
\* eventually reaches an error state the platform code can see, instead of repeating
\* the failing query for ever.
C18_PersistentFailureSurfaces ==
    ([]<>(frame.query = "failed") /\ [](frame.query \in {"none", "failed"}))
        => <>AudioErrorState

\* C19: over any sequence of resize calls the old allocation is released before the
\* new one is requested, so at most one pixel allocation is ever live; no address is
\* released twice; and data is null or the address of the live allocation, never of a
\* released one, whenever a render or a present may run.
C19_OneLiveAllocation ==
    /\ Cardinality(heap) <= 1
    /\ resizeLog.liveAtAlloc = 0
    /\ ~resizeLog.badFree
    /\ backBuffer.data # Nullptr => Live(heap, backBuffer.data)
    /\ backBuffer.data = Nullptr => heap = {}

C19_Witness ==
    /\ pc = "fb"
    /\ resizeLog.freed
    /\ backBuffer.data # Nullptr
    /\ backBuffer.width = MaxDim
    /\ backBuffer.height = MaxDim

\* C20: after an iteration whose lock was granted for the whole computed region, the
\* play cursor being in range and a multiple of bytesPerSample, the next write offset
\* (sampleIndex * bytesPerSample mod bufferSizeBytes, as the code computes it) is the
\* play cursor that iteration aimed at, so the same play cursor gives a count of 0.
C20_NextOffsetIsTarget ==
    (/\ Filled
     /\ cursorsValid
     /\ frame.query = "valid"
     /\ Region1Size + Region2Size = ReqCount
     /\ PlayCursor % BytesPerSample = 0) =>
        /\ ByteOffsetToLock(SampleIndex) = PlayCursor
        /\ ByteCountToWrite(ByteOffsetToLock(SampleIndex), PlayCursor) = 0

\* C21: running only ever changes from true to false: no message handler and no step
\* of the frame loop sets it back to true, so a stop, once signalled, stays signalled.
C21_RunningOnlyFalls ==
    [][running' => running]_vars

C21_Witness ==
    /\ ~running
    /\ pc = "present"
    /\ "paint" \in frame.draws
    /\ frame.samples > 0

\* The addresses GetProcAddress can return for a name: the export of either library.
LoadedFunctions(name) ==
    {Ptr(<<dll, name>>) : dll \in {"xinput1_4.dll", "xinput1_3.dll"}}

\* C22: after LoadInputLibrary, whichever library loads and lookups failed, each of
\* XInputGetState and XInputSetState is the loaded function or its 'device not
\* connected' stub, never null, and no gamepad poll has called through a null pointer.
C22_InputPointersNeverNull ==
    /\ XInputGetState \in {XInputGetStateStub} \cup LoadedFunctions("XInputGetState")
    /\ XInputSetState \in {XInputSetStateStub} \cup LoadedFunctions("XInputSetState")
    /\ XInputGetState # Nullptr /\ XInputSetState # Nullptr
    /\ pollLog # "null"

C22_Witness ==
    /\ pc = "poll"
    /\ pollLog = "stub"
    /\ XInputGetState = XInputGetStateStub
    /\ XInputSetState = Ptr(<<"xinput1_3.dll", "XInputSetState">>)

=============================================================================
